---- MODULE Spec2Model ----
(***************************************************************************)
(* The task store of src/App.py: load_tasks / save_tasks, the ToDoApp      *)
(* methods that mutate ToDoApp.tasks, and the three Kivy callbacks that    *)
(* call them (MainLayout.add_task_from_input, TaskItem.on_checkbox_active, *)
(* TaskItem.delete_task).                                                  *)
(*                                                                         *)
(* A Python str is a sequence of one-character strings.  A Python dict is  *)
(* a TLA+ record; an object of ToDoApp.tasks is [oid, isdict, d]: its       *)
(* identity, its type and its content.  The persisted file is a record     *)
(* [kind, top, items].                                                     *)
(***************************************************************************)
EXTENDS Integers, Sequences, FiniteSets, TLC

VARIABLES
    file,        \* content of TASKS_FILE on disk
    pc,          \* "start" | "running" | "stopped" | "crashed"
    tasks,       \* ToDoApp.tasks: sequence of dict objects [oid, d]
    widgets,     \* task_data of the TaskItem children of task_list_layout (oids)
    failures,    \* saves that met an I/O error since the last one that did not
    last         \* history: the operation that produced this state

vars == <<file, pc, tasks, widgets, failures, last>>

-----------------------------------------------------------------------------
(* Bounds of the model *)

MaxTasks == 3        \* add is not taken beyond this many tasks
MaxFileLen == 2      \* longest JSON array in the initial file
MaxIoFailures == 1   \* saves in a row that may meet an I/O error

-----------------------------------------------------------------------------
(* Strings *)

Whitespace == {" "}
\* "\\ud800" stands for a lone surrogate: json.load accepts its escape, the
\* utf-8 codec of open(..., 'w', encoding='utf-8') cannot encode it.
Surrogate == "\\ud800"

\* Texts the input field may hold when add_task_from_input fires.
Texts ==
    { <<>>, <<" ">>, <<" ", " ">>,
      <<"a">>, <<" ", "a">>, <<"a", " ">>, <<" ", "a", " ">>,
      <<"a", " ", "b">> }

RECURSIVE lstrip(_)
lstrip(s) ==
    IF s # <<>> /\ Head(s) \in Whitespace THEN lstrip(Tail(s)) ELSE s

RECURSIVE rstrip(_)
rstrip(s) ==
    IF s # <<>> /\ s[Len(s)] \in Whitespace
    THEN rstrip(SubSeq(s, 1, Len(s) - 1))
    ELSE s

\* mutant of strip: the text is used as typed
strip_nothing(s) == s

\* str.strip()
strip(s) == rstrip(lstrip(s))

-----------------------------------------------------------------------------
(* Dicts and lists *)

\* Python's == on two dicts: same keys, equal values.
DictEq(a, b) == DOMAIN a = DOMAIN b /\ \A k \in DOMAIN a : a[k] = b[k]

RemoveAt(s, i) == [j \in 1..(Len(s) - 1) |-> IF j < i THEN s[j] ELSE s[j + 1]]

\* mutant of FirstEqual: the last equal element is taken
LastEqual(s, x) ==
    IF \E i \in 1..Len(s) : DictEq(s[i].d, x)
    THEN CHOOSE i \in 1..Len(s) :
            /\ DictEq(s[i].d, x)
            /\ \A j \in (i + 1)..Len(s) : ~DictEq(s[j].d, x)
    ELSE 0

\* list.index by ==; 0 when no element is equal (list.remove raises ValueError)
FirstEqual(s, x) ==
    IF \E i \in 1..Len(s) : DictEq(s[i].d, x)
    THEN CHOOSE i \in 1..Len(s) :
            /\ DictEq(s[i].d, x)
            /\ \A j \in 1..(i - 1) : ~DictEq(s[j].d, x)
    ELSE 0

Oids(s) == {s[i].oid : i \in 1..Len(s)}

\* identity of a newly allocated dict: one that no live object of the list has
FreshOid(s) == CHOOSE n \in 1..(Len(s) + 1) : n \notin Oids(s)

\* the JSON values of the objects of a list, identities dropped
Contents(s) == [i \in 1..Len(s) |-> [isdict |-> s[i].isdict, d |-> s[i].d]]

-----------------------------------------------------------------------------
(* The persisted file *)

\* One element of the parsed JSON array: a dict (d is its content), or a
\* str or list of str (d.elems is what `in` finds in it).
Dict(d) == [isdict |-> TRUE, d |-> d]
StrList(l) == [isdict |-> FALSE, d |-> [elems |-> l]]

FileEntries ==
    { Dict([description |-> <<"a">>, completed |-> FALSE]),
      Dict([description |-> <<Surrogate>>, completed |-> TRUE]),
      Dict([description |-> <<"y">>]),
      Dict([completed |-> FALSE]),
      StrList({"description", "completed"}) }

FileLists == UNION {[1..n -> FileEntries] : n \in 0..MaxFileLen}

Missing     == [kind |-> "missing",     top |-> "none", items |-> <<>>]
Unreadable  == [kind |-> "unreadable",  top |-> "none", items |-> <<>>]
Undecodable == [kind |-> "undecodable", top |-> "none", items |-> <<>>]
Malformed   == [kind |-> "malformed",   top |-> "none", items |-> <<>>]
Json(top, items) == [kind |-> "json", top |-> top, items |-> items]

\* What TASKS_FILE may hold when the application starts.  Iterating a JSON
\* object yields its keys, iterating a JSON string its characters; a number,
\* null, true or false ("scalar") cannot be iterated.
FileContents ==
    {Missing, Unreadable, Undecodable, Malformed}
    \cup {Json("list", l) : l \in FileLists}
    \cup {Json("object", <<StrList({"not"})>>),
          Json("object", <<StrList({"description"}), StrList({"completed"})>>),
          Json("string", <<StrList({"x"})>>),
          Json("scalar", <<>>)}

\* key in task
In(key, task) ==
    IF task.isdict
    THEN key \in DOMAIN task.d
    ELSE key \in task.d.elems

\* mutant of valid_task: the isinstance(task, dict) test is missing
valid_task_any_container(task) ==
    /\ In("description", task)
    /\ In("completed", task)

\* the condition of the list comprehension of load_tasks
valid_task(task) ==
    /\ task.isdict
    /\ In("description", task)
    /\ In("completed", task)

\* load_tasks(): [raised, tasks]; tasks is the list returned.
load_tasks(f) ==
    CASE f.kind = "missing"     -> [raised |-> FALSE, tasks |-> <<>>]
      [] f.kind = "unreadable"  -> [raised |-> FALSE, tasks |-> <<>>]   \* IOError
      [] f.kind = "malformed"   -> [raised |-> FALSE, tasks |-> <<>>]   \* JSONDecodeError
      [] f.kind = "undecodable" -> [raised |-> TRUE,  tasks |-> <<>>]   \* UnicodeDecodeError
      [] f.kind = "json" ->
            IF f.top = "scalar"
            THEN [raised |-> FALSE, tasks |-> <<>>]                      \* TypeError
            ELSE [raised |-> FALSE, tasks |-> SelectSeq(f.items, valid_task)]

\* json.dump(tasks): the JSON array of the objects' values.
dump(ts) == Json("list", Contents(ts))

\* Every str of the list can be encoded as utf-8.
Encodable(ts) ==
    \A i \in 1..Len(ts) : \A k \in DOMAIN ts[i].d :
        k # "completed" =>
            \A c \in 1..Len(ts[i].d[k]) : ts[i].d[k][c] # Surrogate

IoOutcomes == {"ok", "open_fails", "write_fails"}

\* save_tasks(tasks) on file f under I/O outcome io: [result, file].
\* open(.., 'w') truncates before json.dump writes, so a write that stops
\* leaves a truncated file.
save_tasks(ts, f, io) ==
    CASE io = "open_fails"  -> [result |-> "ioerror", file |-> f]
      [] io = "write_fails" -> [result |-> "ioerror", file |-> Malformed]
      [] io = "ok" ->
            IF Encodable(ts)
            THEN [result |-> "ok", file |-> dump(ts)]
            ELSE [result |-> "raised", file |-> Malformed]   \* UnicodeEncodeError

\* mutant of save_all_tasks: nothing is written
save_all_tasks_skipped(ts, f, io) == [result |-> "ok", file |-> f]

\* ToDoApp.save_all_tasks
save_all_tasks(ts, f, io) == save_tasks(ts, f, io)

-----------------------------------------------------------------------------
(* The operations on ToDoApp.tasks *)

\* mutant of add_new_task: list.append instead of list.insert(0, ..)
add_new_task_appends(ts, description) ==
    IF description # <<>>
    THEN ts \o <<[oid |-> FreshOid(ts), isdict |-> TRUE,
                  d   |-> [description |-> description, completed |-> FALSE]]>>
    ELSE ts

\* ToDoApp.add_new_task, up to its call of save_all_tasks
add_new_task(ts, description) ==
    IF description # <<>>
    THEN <<[oid |-> FreshOid(ts), isdict |-> TRUE,
            d   |-> [description |-> description, completed |-> FALSE]]>> \o ts
    ELSE ts

\* list.remove(x) when an element is equal
remove(ts, x) == RemoveAt(ts, FirstEqual(ts, x))

\* mutant of set_completed: every record equal to the object is written
set_completed_by_value(ts, oid, value) ==
    LET x == (CHOOSE t \in {ts[i] : i \in 1..Len(ts)} : t.oid = oid).d
    IN [i \in 1..Len(ts) |->
            IF DictEq(ts[i].d, x)
            THEN [ts[i] EXCEPT !.d = [ts[i].d EXCEPT !.completed = value]]
            ELSE ts[i]]

\* task_data['completed'] = value on the dict object oid
set_completed(ts, oid, value) ==
    [i \in 1..Len(ts) |->
        IF ts[i].oid = oid
        THEN [ts[i] EXCEPT !.d = [ts[i].d EXCEPT !.completed = value]]
        ELSE ts[i]]

\* MainLayout.refresh_tasks_ui: one TaskItem per task, in list order
refresh_tasks_ui(ts) == [i \in 1..Len(ts) |-> ts[i].oid]

\* the content of the dict object a widget holds
task_data(ts, oid) == (CHOOSE t \in {ts[i] : i \in 1..Len(ts)} : t.oid = oid).d

\* Identities are arbitrary names.  When the widgets are rebuilt the objects
\* are renamed by list position, which keeps which widget holds which dict.
Renamed(ts) == [i \in 1..Len(ts) |-> [ts[i] EXCEPT !.oid = i]]

-----------------------------------------------------------------------------
(* History *)

NoArg == [none |-> TRUE]

\* op: the operation; text, i, value, x: its arguments; save: what its call
\* of save_all_tasks met ("none": it made no such call); raised: an exception
\* left the operation.
Rec(op, text, i, value, x, save) ==
    [op |-> op, text |-> text, i |-> i, value |-> value, x |-> x,
     save |-> save, raised |-> (save = "raised")]

\* saves that met an I/O error since the last save that wrote the file
Count(n, result) ==
    CASE result = "ioerror" -> n + 1
      [] result = "ok"      -> 0
      [] OTHER              -> n

-----------------------------------------------------------------------------
(* Actions *)

Init ==
    /\ file \in FileContents
    /\ pc = "start"
    /\ tasks = <<>>
    /\ widgets = <<>>
    /\ failures = 0
    /\ last = Rec("init", <<>>, 0, FALSE, NoArg, "none")

\* ToDoApp.build: load_tasks, then MainLayout.__init__ -> refresh_tasks_ui
build ==
    /\ pc = "start"
    /\ LET r  == load_tasks(file)
           ts == [i \in 1..Len(r.tasks) |->
                    [oid |-> i, isdict |-> r.tasks[i].isdict, d |-> r.tasks[i].d]]
       IN /\ tasks' = ts
          /\ widgets' = IF r.raised THEN <<>> ELSE refresh_tasks_ui(ts)
          /\ pc' = IF r.raised THEN "crashed" ELSE "running"
          /\ last' = [Rec("build", <<>>, 0, FALSE, NoArg, "none")
                        EXCEPT !.raised = r.raised]
    /\ UNCHANGED <<file, failures>>

\* MainLayout.add_task_from_input (Enter or the '+' button); text is what
\* the input field holds when the event fires
add_task_from_input ==
    /\ pc = "running"
    /\ \E text \in Texts, io \in IoOutcomes :
        LET description == strip(text) IN
        IF description # <<>>
        THEN LET ts == add_new_task(tasks, description)
                 s  == save_all_tasks(ts, file, io)
             IN /\ Len(tasks) < MaxTasks
                /\ Count(failures, s.result) <= MaxIoFailures
                /\ failures' = Count(failures, s.result)
                /\ file' = s.file
                /\ IF s.result = "raised"
                   THEN /\ pc' = "crashed"
                        /\ tasks' = ts
                        /\ UNCHANGED widgets
                   ELSE /\ pc' = pc
                        /\ tasks' = Renamed(ts)
                        /\ widgets' = refresh_tasks_ui(Renamed(ts))
                /\ last' = Rec("add", text, 0, FALSE, NoArg, s.result)
        ELSE /\ io = "ok"
             /\ last' = Rec("add", text, 0, FALSE, NoArg, "none")
             /\ UNCHANGED <<file, pc, tasks, widgets, failures>>

\* TaskItem.on_checkbox_active of the i-th displayed item
on_checkbox_active ==
    /\ pc = "running"
    /\ \E i \in 1..Len(widgets), value \in BOOLEAN, io \in IoOutcomes :
        LET ts == set_completed(tasks, widgets[i], value)
            s  == save_all_tasks(ts, file, io)
        IN /\ Count(failures, s.result) <= MaxIoFailures
           /\ failures' = Count(failures, s.result)
           /\ tasks' = ts
           /\ file' = s.file
           /\ pc' = IF s.result = "raised" THEN "crashed" ELSE pc
           /\ last' = Rec("toggle", <<>>, i, value, NoArg, s.result)
    /\ UNCHANGED widgets

\* mutant of delete_task: the save is made whether or not an element was removed
delete_task_always_saves(op, i, x, io) ==
    LET found == FirstEqual(tasks, x) # 0
        ts == IF found THEN remove(tasks, x) ELSE tasks
        s  == save_all_tasks(ts, file, io)
    IN /\ Count(failures, s.result) <= MaxIoFailures
       /\ failures' = Count(failures, s.result)
       /\ file' = s.file
       /\ IF s.result = "raised"
          THEN /\ pc' = "crashed"
               /\ tasks' = ts
               /\ UNCHANGED widgets
          ELSE /\ pc' = pc
               /\ tasks' = Renamed(ts)
               /\ widgets' = refresh_tasks_ui(Renamed(ts))
       /\ last' = Rec(op, <<>>, i, FALSE, x, s.result)

\* ToDoApp.delete_task(task_data_to_delete)
delete_task(op, i, x, io) ==
    IF FirstEqual(tasks, x) = 0
    THEN /\ io = "ok"                                   \* ValueError, caught
         /\ last' = Rec(op, <<>>, i, FALSE, x, "none")
         /\ UNCHANGED <<file, pc, tasks, widgets, failures>>
    ELSE LET ts == remove(tasks, x)
             s  == save_all_tasks(ts, file, io)
         IN /\ Count(failures, s.result) <= MaxIoFailures
            /\ failures' = Count(failures, s.result)
            /\ file' = s.file
            /\ IF s.result = "raised"
               THEN /\ pc' = "crashed"
                    /\ tasks' = ts
                    /\ UNCHANGED widgets
               ELSE /\ pc' = pc
                    /\ tasks' = Renamed(ts)
                    /\ widgets' = refresh_tasks_ui(Renamed(ts))
            /\ last' = Rec(op, <<>>, i, FALSE, x, s.result)

\* TaskItem.delete_task: the 'Del' button of the i-th displayed item
press_delete ==
    /\ pc = "running"
    /\ \E i \in 1..Len(widgets), io \in IoOutcomes :
          delete_task("press_delete", i, task_data(tasks, widgets[i]), io)

\* Records that ToDoApp.delete_task is called with directly.
ProbeDicts ==
    { [description |-> <<"a">>, completed |-> FALSE],
      [description |-> <<"z">>, completed |-> FALSE] }

\* ToDoApp.delete_task called with a record that is not a displayed object
call_delete_task ==
    /\ pc = "running"
    /\ \E x \in ProbeDicts, io \in IoOutcomes :
          delete_task("delete", 0, x, io)

\* ToDoApp.on_stop
on_stop ==
    /\ pc = "running"
    /\ \E io \in IoOutcomes :
        LET s == save_all_tasks(tasks, file, io)
        IN /\ Count(failures, s.result) <= MaxIoFailures
           /\ failures' = Count(failures, s.result)
           /\ file' = s.file
           /\ pc' = IF s.result = "raised" THEN "crashed" ELSE "stopped"
           /\ last' = Rec("on_stop", <<>>, 0, FALSE, NoArg, s.result)
    /\ UNCHANGED <<tasks, widgets>>

Next ==
    \/ build
    \/ add_task_from_input
    \/ on_checkbox_active
    \/ press_delete
    \/ call_delete_task
    \/ on_stop

Spec == Init /\ [][Next]_vars

\* no str of the file holds a lone surrogate
Utf8File(f) ==
    \A j \in 1..Len(f.items) :
        f.items[j].isdict =>
            \A k \in DOMAIN f.items[j].d :
                k # "completed" =>
                    \A c \in 1..Len(f.items[j].d[k]) : f.items[j].d[k][c] # Surrogate

\* The runs that start from a file every str of which utf-8 can encode.
InitUtf8 == Init /\ Utf8File(file)

SpecUtf8 == InitUtf8 /\ [][Next]_vars

-----------------------------------------------------------------------------
(* Sanity: while the application runs, the i-th widget holds the i-th task *)

WidgetsInSync ==
    /\ pc \in {"start", "running", "stopped", "crashed"}
    /\ pc = "running" => widgets = refresh_tasks_ui(tasks)
    /\ Cardinality(Oids(tasks)) = Len(tasks)

-----------------------------------------------------------------------------
(* Vocabulary of the properties *)

\* some character of the text is not whitespace
NonBlank(text) == \E k \in 1..Len(text) : text[k] \notin Whitespace

\* the text from its first to its last non-whitespace character
Trimmed(text) ==
    IF NonBlank(text)
    THEN LET ks == {k \in 1..Len(text) : text[k] \notin Whitespace}
             lo == CHOOSE k \in ks : \A m \in ks : k <= m
             hi == CHOOSE k \in ks : \A m \in ks : m <= k
         IN [j \in 1..(hi - lo + 1) |-> text[lo + j - 1]]
    ELSE <<>>

NewTask(description) == Dict([description |-> description, completed |-> FALSE])

\* positions of s whose dict equals x, as Python compares dicts
EqualAt(s, x) == {k \in 1..Len(s) : s[k].isdict /\ DictEq(s[k].d, x)}

\* s without its k-th element
Without(s, k) == SubSeq(s, 1, k - 1) \o SubSeq(s, k + 1, Len(s))

IsDelete(op) == op \in {"delete", "press_delete"}

\* the file holds exactly the list ts: same records, same order, same flags
FileHolds(f, ts) ==
    /\ f.kind = "json"
    /\ f.top = "list"
    /\ Len(f.items) = Len(ts)
    /\ \A j \in 1..Len(ts) : f.items[j].isdict /\ f.items[j].d = ts[j].d

-----------------------------------------------------------------------------
(* C1 *)

\* C1 as stated: an add of a text d that is not blank puts the record
\* (description = d, completed = false) at position 0, in front of the
\* previous elements in their previous order.
C1_AddStoresTextAsTyped ==
    [][ (last'.op = "add" /\ NonBlank(last'.text)) =>
            Contents(tasks') = <<NewTask(last'.text)>> \o Contents(tasks) ]_vars

\* C1 amended: an add of a text d that is not blank puts the record
\* (description = d without its surrounding whitespace, completed = false)
\* at position 0, in front of the previous elements in their previous order;
\* the length grows by exactly 1.
C1_AddInsertsTrimmedAtHead ==
    [][ (last'.op = "add" /\ NonBlank(last'.text)) =>
            /\ Len(tasks') = Len(tasks) + 1
            /\ Contents(tasks') = <<NewTask(Trimmed(last'.text))>> \o Contents(tasks)
      ]_vars

C1_Witness ==
    /\ last.op = "add"
    /\ last.text = <<" ", "a", " ">>
    /\ Len(tasks) = 3
    /\ tasks[1].d = [description |-> <<"a">>, completed |-> FALSE]
    /\ tasks[2].d.description = <<"a", " ", "b">>

-----------------------------------------------------------------------------
(* C2 *)

\* C2: an add of the empty text or of a text of whitespace only changes
\* nothing: the in-memory sequence is the same and no record is inserted.
C2_BlankAddIsNoOp ==
    [][ (last'.op = "add" /\ ~NonBlank(last'.text)) =>
            /\ tasks' = tasks
            /\ file' = file
            /\ pc' = pc
      ]_vars

C2_Witness ==
    /\ last.op = "add"
    /\ last.text = <<" ", " ">>
    /\ Len(tasks) = 1

-----------------------------------------------------------------------------
(* C3 *)

\* C3: a delete of a record that some element equals removes the first such
\* element and nothing else: the length shrinks by 1, the other elements
\* keep their order and their fields.
C3_DeleteRemovesFirstEqual ==
    [][ (IsDelete(last'.op) /\ EqualAt(tasks, last'.x) # {}) =>
            LET k == CHOOSE k \in EqualAt(tasks, last'.x) :
                        \A m \in EqualAt(tasks, last'.x) : k <= m
            IN /\ Len(tasks') = Len(tasks) - 1
               /\ Contents(tasks') = Without(Contents(tasks), k)
      ]_vars

\* a delete has just removed one of two equal records that were apart
C3_Witness ==
    /\ last.op = "delete"
    /\ last.x = [description |-> <<"a">>, completed |-> FALSE]
    /\ Len(tasks) = 2
    /\ tasks[1].d.description = <<"a", " ", "b">>
    /\ tasks[2].d = [description |-> <<"a">>, completed |-> FALSE]

-----------------------------------------------------------------------------
(* C4 *)

\* C4: a delete of a record that no element equals leaves the in-memory
\* sequence as it was, raises nothing and does not write the file.
C4_DeleteAbsentIsNoOp ==
    [][ (IsDelete(last'.op) /\ EqualAt(tasks, last'.x) = {}) =>
            /\ tasks' = tasks
            /\ ~last'.raised
            /\ pc' = pc
            /\ file' = file
            /\ last'.save = "none"
      ]_vars

\* an absent record was deleted while the file did not hold the list
C4_Witness ==
    /\ last.op = "delete"
    /\ last.x = [description |-> <<"z">>, completed |-> FALSE]
    /\ Len(tasks) = 2
    /\ ~FileHolds(file, tasks)
    /\ pc = "running"

-----------------------------------------------------------------------------
(* C5 *)

\* set_completed twice on the i-th task: to true, then to false
TrueThenFalse(ts, i) ==
    set_completed(set_completed(ts, ts[i].oid, TRUE), ts[i].oid, FALSE)

\* C5: a toggle of the i-th item to value sets the completed flag of that
\* task to value and changes nothing else (length, order, descriptions and
\* the flags of the other records); to true and then to false on a task
\* that was not completed gives back the sequence.
C5_ToggleSetsOnlyThatFlag ==
    /\ [][ last'.op = "toggle" =>
            /\ Len(tasks') = Len(tasks)
            /\ \A j \in 1..Len(tasks) :
                IF j = last'.i
                THEN /\ tasks'[j].d.completed = last'.value
                     /\ tasks'[j].d.description = tasks[j].d.description
                     /\ DOMAIN tasks'[j].d = DOMAIN tasks[j].d
                ELSE tasks'[j].d = tasks[j].d
         ]_vars
    /\ [](\A i \in 1..Len(tasks) :
            tasks[i].d.completed = FALSE => TrueThenFalse(tasks, i) = tasks)

\* the second of three tasks was set to completed, the others were not
C5_Witness ==
    /\ last.op = "toggle"
    /\ last.i = 2
    /\ last.value = TRUE
    /\ Len(tasks) = 3
    /\ tasks[2].d.completed = TRUE
    /\ tasks[1].d.completed = FALSE
    /\ tasks[3].d.completed = FALSE

-----------------------------------------------------------------------------
(* C6 *)

\* C6: when an add, a delete or a toggle changed the sequence, or a toggle
\* ran, and no file write of it failed, then at its end the file holds the
\* whole in-memory sequence: same records, same order, same flags.
C6_MutationIsPersistedAtOnce ==
    [][ ( /\ last'.op \in {"add", "delete", "press_delete", "toggle"}
          /\ Contents(tasks') # Contents(tasks) \/ last'.op = "toggle"
          /\ last'.save \notin {"ioerror", "raised"} )
        => FileHolds(file', tasks') ]_vars

\* a toggle of the first of two tasks has just been saved
C6_Witness ==
    /\ last.op = "toggle"
    /\ last.save = "ok"
    /\ failures = 0
    /\ Len(tasks) = 2
    /\ tasks[1].d.completed /\ ~tasks[2].d.completed
    /\ FileHolds(file, tasks)

-----------------------------------------------------------------------------
(* C7 *)

\* C7: load returns the empty sequence and raises nothing when the file is
\* missing, holds an empty JSON array, holds JSON that is no list, or is
\* malformed or in an invalid encoding.
C7_LoadTolerance ==
    ( /\ last.op = "build"
      /\ \/ file.kind \in {"missing", "malformed", "undecodable"}
         \/ file.kind = "json" /\ file.top # "list"
         \/ file.kind = "json" /\ file.top = "list" /\ file.items = <<>> )
    => (~last.raised /\ pc = "running" /\ tasks = <<>>)

-----------------------------------------------------------------------------
(* C8 *)

HasBothFields(e) ==
    e.isdict /\ {"description", "completed"} \subseteq DOMAIN e.d

\* C8: every record of the in-memory sequence is a dict with a description
\* and a completed field, in every reachable state; and load keeps exactly
\* the parsed entries that are such dicts, in file order.
C8_RecordsHaveBothFields ==
    /\ \A i \in 1..Len(tasks) : HasBothFields(tasks[i])
    /\ (last.op = "build" /\ file.kind = "json" /\ file.top = "list")
            => Contents(tasks) = SelectSeq(file.items, HasBothFields)

\* load kept the first entry and dropped a list that contains both keys
C8_Witness ==
    /\ last.op = "build"
    /\ file.kind = "json" /\ file.top = "list"
    /\ Len(file.items) = 2
    /\ ~file.items[2].isdict
    /\ Len(tasks) = 1

-----------------------------------------------------------------------------
(* C9 *)

\* C9: when the file write of a save fails, the operation raises nothing
\* and the in-memory sequence keeps the mutation; a save that succeeds
\* makes the file hold the in-memory sequence.
C9_SaveFailureIsSwallowed ==
    [][ /\ last'.save \in {"ioerror", "raised"} =>
            /\ ~last'.raised
            /\ pc' # "crashed"
            /\ last'.op = "toggle" =>
                    tasks'[last'.i].d.completed = last'.value
            /\ last'.op = "add" => Len(tasks') = Len(tasks) + 1
            /\ IsDelete(last'.op) => Len(tasks') = Len(tasks) - 1
            /\ last'.op = "on_stop" => tasks' = tasks
        /\ last'.save = "ok" => FileHolds(file', tasks')
      ]_vars

-----------------------------------------------------------------------------
(* C10 *)

\* C10: 'Del' on the item displayed at position i removes exactly the record
\* at position i: the sequence afterwards is the one before without index i.
C10_DeleteRemovesPressedItem ==
    [][ last'.op = "press_delete" =>
            Contents(tasks') = Without(Contents(tasks), last'.i) ]_vars

====
